---- MODULE Spec2Model ----
(***************************************************************************)
(* Solar Energy Monitoring System (SolarEnergyMonitoringSystem.ino).       *)
(*                                                                         *)
(* The sketch is one thread: setup() configures the relay pin, waits for   *)
(* WiFi and starts the web server; loop() serves at most one page request, *)
(* acquires voltage and current, computes power, decides the relay and     *)
(* sleeps.  The model follows that control flow with a program counter.    *)
(*                                                                         *)
(* The sketch computes in C float (IEEE-754 binary32, round to nearest,    *)
(* ties to even).  A float is modelled exactly as a record                 *)
(*    [s |-> sign, m |-> mantissa, e |-> exponent]  =  (-1)^s * m * 2^e    *)
(* with m = 0 (zero) or 2^23 <= m < 2^24.  All values of the sketch lie    *)
(* far from the overflow and subnormal ranges, which are not modelled; the *)
(* sign of zero is not modelled either (no operation of the sketch tells   *)
(* +0 from -0).                                                            *)
(***************************************************************************)
EXTENDS Integers, Sequences, FiniteSets

\* ------------------------------------------------------------------------
\* binary32 arithmetic as the compiled sketch performs it
\* ------------------------------------------------------------------------

RECURSIVE Pow2(_)
Pow2(n) == IF n = 0 THEN 1 ELSE 2 * Pow2(n - 1)

\* A float mantissa has 24 bits: MantMin <= m < MantMax.
MantMin == Pow2(23)

MantMax == Pow2(24)

FZero == [s |-> 0, m |-> 0, e |-> 0]

\* Scale a non-zero integer magnitude up to a 24-bit mantissa (exact).
RECURSIVE Normalize(_, _, _)
Normalize(s, m, e) ==
    IF m = 0 THEN FZero
    ELSE IF m < MantMin THEN Normalize(s, 2 * m, e - 1)
    ELSE [s |-> s, m |-> m, e |-> e]

\* (float)n for an int 0 <= n < 2^24: exact.
IntToFloat(n) == Normalize(0, n, 0)

\* Round to nearest, ties to even: q is the truncated mantissa and cmp the
\* sign of (discarded fraction - 1/2).
RoundPack(s, q, e, cmp) ==
    LET up == cmp > 0 \/ (cmp = 0 /\ q % 2 = 1)
        r  == IF up THEN q + 1 ELSE q
    IN  IF r = MantMax THEN [s |-> s, m |-> MantMin, e |-> e + 1]
        ELSE [s |-> s, m |-> r, e |-> e]

Sign(x) == IF x > 0 THEN 1 ELSE IF x < 0 THEN -1 ELSE 0

\* n more quotient bits of r / d by long division: <<quotient, remainder>>.
RECURSIVE DivBits(_, _, _, _)
DivBits(r, d, q, n) ==
    IF n = 0 THEN <<q, r>>
    ELSE IF 2 * r >= d THEN DivBits((2 * r) - d, d, (2 * q) + 1, n - 1)
         ELSE DivBits(2 * r, d, 2 * q, n - 1)

\* a / b in float, b # 0.
FDiv(a, b) ==
    IF a.m = 0 THEN FZero
    ELSE LET k  == IF a.m >= b.m THEN 23 ELSE 24
             qr == DivBits(a.m % b.m, b.m, (a.m \div b.m), k)
         IN  RoundPack((a.s + b.s) % 2, qr[1], a.e - b.e - k,
                       Sign((2 * qr[2]) - b.m))

\* a * b in float: the 48-bit product from 12-bit limbs, then rounded.
FMul(a, b) ==
    IF a.m = 0 \/ b.m = 0 THEN FZero
    ELSE LET L   == Pow2(12)
             ah  == a.m \div L
             al  == a.m % L
             bh  == b.m \div L
             bl  == b.m % L
             mid == (ah * bl) + (al * bh)
             t   == (al * bl) + ((mid % L) * L)
             lo  == t % MantMax
             hi  == (ah * bh) + (mid \div L) + (t \div MantMax)
             s   == (a.s + b.s) % 2
         IN  IF hi >= MantMin
             THEN RoundPack(s, hi, a.e + b.e + 24, Sign(lo - MantMin))
             ELSE RoundPack(s, (2 * hi) + (lo \div MantMin), a.e + b.e + 23,
                            Sign((2 * (lo % MantMin)) - MantMin))

\* |a| >= |b|
MagGeq(a, b) ==
    IF b.m = 0 THEN TRUE
    ELSE IF a.m = 0 THEN FALSE
    ELSE a.e > b.e \/ (a.e = b.e /\ a.m >= b.m)

\* v shifted right by d bits, the bits shifted out kept as a sticky last bit.
ShiftSticky(v, d) ==
    IF d >= 30 THEN (IF v = 0 THEN 0 ELSE 1)
    ELSE LET p == Pow2(d)
             y == v \div p
         IN  IF v % p # 0 /\ y % 2 = 0 THEN y + 1 ELSE y

RECURSIVE NormalizeGuard(_, _)
NormalizeGuard(d, e) ==
    IF d < 8 * MantMin THEN NormalizeGuard(2 * d, e - 1) ELSE <<d, e>>

\* a - b in float for a, b >= 0 (three guard bits below the mantissa).
FSub(a, b) ==
    IF b.m = 0 THEN a
    ELSE IF a.m = 0 THEN [b EXCEPT !.s = 1]
    ELSE IF a.m = b.m /\ a.e = b.e THEN FZero
    ELSE LET pos   == MagGeq(a, b)
             big   == IF pos THEN a ELSE b
             small == IF pos THEN b ELSE a
             diff  == (8 * big.m) - ShiftSticky(8 * small.m, big.e - small.e)
             de    == NormalizeGuard(diff, big.e - 3)
         IN  RoundPack(IF pos THEN 0 ELSE 1, de[1] \div 8, de[2] + 3,
                       Sign((de[1] % 8) - 4))

\* a >= b for a, b >= 0 (the sketch compares non-negative values only).
FGeq(a, b) == MagGeq(a, b)

\* abs() of the Arduino core on a float: the magnitude, as a float.
FAbs(x) == [x EXCEPT !.s = 0]

\* x / 2.0 : the exponent drops by one (exact).
FHalf(x) == IF x.m = 0 THEN FZero ELSE [x EXCEPT !.e = x.e - 1]

\* A decimal literal num/den as the float the compiler stores.
FLit(num, den) == FDiv(IntToFloat(num), IntToFloat(den))

\* printf("%.<d>f") of x >= 0, as the integer x * scale rounded to nearest
\* (ties to even on the exact binary value), scale = 10^d.
Fmt(x, scale) ==
    LET n == x.m * scale
    IN  IF x.e >= 0 THEN n * Pow2(x.e)
        ELSE IF -x.e >= 32 THEN 0
        ELSE IF -x.e = 31 THEN (IF n > Pow2(30) THEN 1 ELSE 0)
        ELSE LET p == Pow2(-x.e)
                 q == n \div p
                 c == Sign((2 * (n % p)) - p)
             IN  IF c > 0 \/ (c = 0 /\ q % 2 = 1) THEN q + 1 ELSE q

\* ------------------------------------------------------------------------
\* configuration and calibration values
\* ------------------------------------------------------------------------

VOLTAGE_SCALE_FACTOR == FLit(4, 1)

ADC_MAX_VOLTAGE == FLit(33, 10)

ADC_RESOLUTION == 4095

CURRENT_SENSITIVITY == FLit(185, 1000)

ZERO_CURRENT_OFFSET == 2048

MIN_POWER_TO_CONNECT_W == FLit(10, 1)

\* The number of samples readCurrent() averages.
NumSamples == 20

\* ------------------------------------------------------------------------
\* sensor conversions
\* ------------------------------------------------------------------------

VoltageOfIntDiv(adcValue) ==
    FMul(FMul(IntToFloat(adcValue \div ADC_RESOLUTION), ADC_MAX_VOLTAGE),
         VOLTAGE_SCALE_FACTOR)

\* readVoltage() on the raw sample adcValue.
VoltageOf(adcValue) ==
    FMul(FMul(FDiv(IntToFloat(adcValue), IntToFloat(ADC_RESOLUTION)),
              ADC_MAX_VOLTAGE),
         VOLTAGE_SCALE_FACTOR)

\* readCurrent() after its sampling loop, on the accumulated sum.
CurrentOf(totalAdc) ==
    LET avgAdc        == totalAdc \div NumSamples
        sensorVoltage == FMul(FDiv(IntToFloat(avgAdc), IntToFloat(ADC_RESOLUTION)),
                              ADC_MAX_VOLTAGE)
        voltageOffset == FHalf(ADC_MAX_VOLTAGE)
        currentAmps   == FDiv(FSub(sensorVoltage, voltageOffset), CURRENT_SENSITIVITY)
    IN  FAbs(currentAmps)

\* ------------------------------------------------------------------------
\* bounds and inputs of the model
\* ------------------------------------------------------------------------

\* loop() iterations explored.
MaxTick == 4

\* Largest distance between the two raw samples compared in SpecVoltage.
MaxGap == 8

\* Raw samples analogRead(VOLTAGE_PIN) may return (12-bit ADC).
VoltageSamples == {0, 349, 4095}

\* Raw samples analogRead(CURRENT_PIN) may return.
CurrentSamples == {2048, 4088}

\* What WiFi.status() may report.
WifiStatuses == {"WL_DISCONNECTED", "WL_CONNECT_FAILED", "WL_CONNECTED"}

\* What server.handleClient() may find pending.
Requests == {"none", "GET /"}

\* ------------------------------------------------------------------------
\* state
\* ------------------------------------------------------------------------

VARIABLES
    pc,                \* position in setup() / loop()
    wifiStatus,        \* what WiFi.status() last reported
    relayPin,          \* level driven on LOAD_RELAY_PIN
    currentVoltage,
    currentCurrent,
    currentPower,
    loadConnected,
    i,                 \* readCurrent(): loop counter
    totalAdc,          \* readCurrent(): sum of the samples
    sent,              \* what the last handleClient() sent: <<>> or <<code, type, page>>
    tick,              \* loop() iterations begun
    vTick,             \* iteration that acquired currentVoltage (0: initial value)
    cTick,             \* iteration that acquired currentCurrent (0: initial value)
    pinWrites,         \* digitalWrite() calls of the current iteration
    flagWrites,        \* assignments to loadConnected of the current iteration
    reachedThreshold,  \* controlLoad() has run with currentPower >= threshold
    relayLog,          \* relay level after each controlLoad()
    sampleLo,          \* SpecVoltage: the smaller raw sample
    sampleHi,          \* SpecVoltage: the larger raw sample
    voltLo,            \* SpecVoltage: readVoltage() of sampleLo
    voltHi,            \* SpecVoltage: readVoltage() of sampleHi
    converted          \* SpecVoltage: the conversions were applied

record == <<currentVoltage, currentCurrent, currentPower, loadConnected>>

locals == <<i, totalAdc>>

history == <<tick, vTick, cTick, pinWrites, flagWrites, reachedThreshold, relayLog>>

probe == <<sampleLo, sampleHi, voltLo, voltHi, converted>>

vars == <<pc, wifiStatus, relayPin, record, locals, sent, history, probe>>

ProbeInit ==
    /\ sampleLo = 0
    /\ sampleHi = 0
    /\ voltLo = FZero
    /\ voltHi = FZero
    /\ converted = FALSE

\* The globals as constructed, before setup() runs.
ProgramInit ==
    /\ pc = "setup"
    /\ wifiStatus = "WL_IDLE_STATUS"
    /\ relayPin = "UNCONFIGURED"
    /\ currentVoltage = FZero
    /\ currentCurrent = FZero
    /\ currentPower = FZero
    /\ loadConnected = FALSE
    /\ i = 0
    /\ totalAdc = 0
    /\ sent = <<>>
    /\ tick = 0
    /\ vTick = 0
    /\ cTick = 0
    /\ pinWrites = 0
    /\ flagWrites = 0
    /\ reachedThreshold = FALSE
    /\ relayLog = <<>>

Init == ProgramInit /\ ProbeInit

\* digitalRead(LOAD_RELAY_PIN): the level the output pin is driven to.
DigitalRead == relayPin

\* ------------------------------------------------------------------------
\* setup()
\* ------------------------------------------------------------------------

SetupPinsHigh ==
    /\ pc = "setup"
    /\ relayPin' = "HIGH"
    /\ pc' = "wifi"
    /\ UNCHANGED <<wifiStatus, record, locals, sent, history, probe>>

\* pinMode(LOAD_RELAY_PIN, OUTPUT); digitalWrite(LOAD_RELAY_PIN, LOW);
\* WiFi.begin(ssid, password).
SetupPins ==
    /\ pc = "setup"
    /\ relayPin' = "LOW"
    /\ pc' = "wifi"
    /\ UNCHANGED <<wifiStatus, record, locals, sent, history, probe>>

WifiPollGiveUp ==
    /\ pc = "wifi"
    /\ \E st \in WifiStatuses :
          /\ wifiStatus' = st
          /\ pc' = IF st = "WL_DISCONNECTED" THEN "wifi" ELSE "handleClient"
    /\ UNCHANGED <<relayPin, record, locals, sent, history, probe>>

\* One test of while (WiFi.status() != WL_CONNECTED): delay and stay, or go on
\* to server.on("/", HTTP_GET, handleRoot), server.begin() and return.
WifiPoll ==
    /\ pc = "wifi"
    /\ \E st \in WifiStatuses :
          /\ wifiStatus' = st
          /\ pc' = IF st # "WL_CONNECTED" THEN "wifi" ELSE "handleClient"
    /\ UNCHANGED <<relayPin, record, locals, sent, history, probe>>

\* ------------------------------------------------------------------------
\* the status page
\* ------------------------------------------------------------------------

GetPageSwapped ==
    [voltage      |-> Fmt(currentVoltage, 100),
     current      |-> Fmt(currentPower, 100),
     power        |-> Fmt(currentCurrent, 100),
     status_class |-> IF loadConnected THEN "on" ELSE "off",
     status_text  |-> IF loadConnected THEN "CONNECTED"
                                       ELSE "DISCONNECTED (Low Power)",
     threshold    |-> Fmt(MIN_POWER_TO_CONNECT_W, 10)]

\* getPage(): the values substituted into the template, as printed: %.2f for
\* voltage, current and power (in hundredths), %s for the status class and
\* text, %.1f for the threshold (in tenths).
GetPage ==
    [voltage      |-> Fmt(currentVoltage, 100),
     current      |-> Fmt(currentCurrent, 100),
     power        |-> Fmt(currentPower, 100),
     status_class |-> IF loadConnected THEN "on" ELSE "off",
     status_text  |-> IF loadConnected THEN "CONNECTED"
                                       ELSE "DISCONNECTED (Low Power)",
     threshold    |-> Fmt(MIN_POWER_TO_CONNECT_W, 10)]

\* handleRoot(): server.send(200, "text/html", getPage()).
HandleRoot == <<200, "text/html", GetPage>>

\* ------------------------------------------------------------------------
\* loop()
\* ------------------------------------------------------------------------

HandleClientAfterRead ==
    /\ pc = "handleClient"
    /\ tick < MaxTick
    /\ tick' = tick + 1
    /\ pinWrites' = 0
    /\ flagWrites' = 0
    /\ \E adc \in VoltageSamples : currentVoltage' = VoltageOf(adc)
    /\ UNCHANGED <<wifiStatus, relayPin, currentCurrent, currentPower,
                   loadConnected, locals, vTick, cTick, reachedThreshold,
                   relayLog, probe>>
    /\ \E req \in Requests :
          sent' = IF req = "GET /" THEN HandleRoot' ELSE <<>>
    /\ pc' = "readVoltage"

\* loop() is entered and server.handleClient() serves at most one pending
\* request; GET / is routed to handleRoot().
HandleClient ==
    /\ pc = "handleClient"
    /\ tick < MaxTick
    /\ tick' = tick + 1
    /\ pinWrites' = 0
    /\ flagWrites' = 0
    /\ \E req \in Requests :
          sent' = IF req = "GET /" THEN HandleRoot ELSE <<>>
    /\ pc' = "readVoltage"
    /\ UNCHANGED <<wifiStatus, relayPin, record, locals, vTick, cTick,
                   reachedThreshold, relayLog, probe>>

\* currentVoltage = readVoltage(); readCurrent() is entered (totalAdc = 0,
\* i = 0).
ReadVoltage ==
    /\ pc = "readVoltage"
    /\ \E adcValue \in VoltageSamples : currentVoltage' = VoltageOf(adcValue)
    /\ vTick' = tick
    /\ i' = 0
    /\ totalAdc' = 0
    /\ pc' = "readCurrent"
    /\ UNCHANGED <<wifiStatus, relayPin, currentCurrent, currentPower,
                   loadConnected, sent, tick, cTick, pinWrites, flagWrites,
                   reachedThreshold, relayLog, probe>>

\* One pass of readCurrent()'s loop: totalAdc += analogRead(CURRENT_PIN);
\* delay(1).
ReadCurrentSample ==
    /\ pc = "readCurrent"
    /\ i < NumSamples
    /\ \E adc \in CurrentSamples : totalAdc' = totalAdc + adc
    /\ i' = i + 1
    /\ UNCHANGED <<pc, wifiStatus, relayPin, record, sent, history, probe>>

\* The loop is left; currentCurrent = the value readCurrent() returns.
ReadCurrentReturn ==
    /\ pc = "readCurrent"
    /\ ~(i < NumSamples)
    /\ currentCurrent' = CurrentOf(totalAdc)
    /\ cTick' = tick
    /\ pc' = "computePower"
    /\ UNCHANGED <<wifiStatus, relayPin, currentVoltage, currentPower,
                   loadConnected, locals, sent, tick, vTick, pinWrites,
                   flagWrites, reachedThreshold, relayLog, probe>>

ComputePowerSquare ==
    /\ pc = "computePower"
    /\ currentPower' = FMul(currentVoltage, currentVoltage)
    /\ pc' = "controlLoad"
    /\ UNCHANGED <<wifiStatus, relayPin, currentVoltage, currentCurrent,
                   loadConnected, locals, sent, history, probe>>

\* currentPower = currentVoltage * currentCurrent.
ComputePower ==
    /\ pc = "computePower"
    /\ currentPower' = FMul(currentVoltage, currentCurrent)
    /\ pc' = "controlLoad"
    /\ UNCHANGED <<wifiStatus, relayPin, currentVoltage, currentCurrent,
                   loadConnected, locals, sent, history, probe>>

\* The frame of controlLoad() and its bookkeeping.
ControlLoadFrame(above) ==
    /\ reachedThreshold' = (reachedThreshold \/ above)
    /\ relayLog' = Append(relayLog, relayPin')
    /\ pc' = "print"
    /\ UNCHANGED <<wifiStatus, currentVoltage, currentCurrent, currentPower,
                   locals, sent, tick, vTick, cTick, probe>>

ControlLoadHysteresis ==
    /\ pc = "controlLoad"
    /\ LET above == FGeq(currentPower, MIN_POWER_TO_CONNECT_W)
           below == ~FGeq(currentPower, FHalf(MIN_POWER_TO_CONNECT_W))
       IN  /\ IF above /\ DigitalRead = "LOW"
              THEN /\ relayPin' = "HIGH"
                   /\ loadConnected' = TRUE
                   /\ pinWrites' = pinWrites + 1
                   /\ flagWrites' = flagWrites + 1
              ELSE IF below /\ DigitalRead = "HIGH"
              THEN /\ relayPin' = "LOW"
                   /\ loadConnected' = FALSE
                   /\ pinWrites' = pinWrites + 1
                   /\ flagWrites' = flagWrites + 1
              ELSE UNCHANGED <<relayPin, loadConnected, pinWrites, flagWrites>>
           /\ ControlLoadFrame(above)

ControlLoadFlagOnly ==
    /\ pc = "controlLoad"
    /\ LET above == FGeq(currentPower, MIN_POWER_TO_CONNECT_W)
       IN  /\ IF above /\ DigitalRead = "LOW"
              THEN /\ relayPin' = "HIGH"
                   /\ loadConnected' = TRUE
                   /\ pinWrites' = pinWrites + 1
                   /\ flagWrites' = flagWrites + 1
              ELSE IF ~above /\ DigitalRead = "HIGH"
              THEN /\ relayPin' = "LOW"
                   /\ pinWrites' = pinWrites + 1
                   /\ UNCHANGED <<loadConnected, flagWrites>>
              ELSE UNCHANGED <<relayPin, loadConnected, pinWrites, flagWrites>>
           /\ ControlLoadFrame(above)

ControlLoadAlwaysWrite ==
    /\ pc = "controlLoad"
    /\ LET above == FGeq(currentPower, MIN_POWER_TO_CONNECT_W)
       IN  /\ relayPin' = IF above THEN "HIGH" ELSE "LOW"
           /\ loadConnected' = above
           /\ pinWrites' = pinWrites + 1
           /\ flagWrites' = flagWrites + 1
           /\ ControlLoadFrame(above)

\* controlLoad().
ControlLoad ==
    /\ pc = "controlLoad"
    /\ LET above == FGeq(currentPower, MIN_POWER_TO_CONNECT_W)
       IN  /\ IF above
              THEN IF DigitalRead = "LOW"
                   THEN /\ relayPin' = "HIGH"
                        /\ loadConnected' = TRUE
                        /\ pinWrites' = pinWrites + 1
                        /\ flagWrites' = flagWrites + 1
                   ELSE UNCHANGED <<relayPin, loadConnected, pinWrites, flagWrites>>
              ELSE IF DigitalRead = "HIGH"
                   THEN /\ relayPin' = "LOW"
                        /\ loadConnected' = FALSE
                        /\ pinWrites' = pinWrites + 1
                        /\ flagWrites' = flagWrites + 1
                   ELSE UNCHANGED <<relayPin, loadConnected, pinWrites, flagWrites>>
           /\ ControlLoadFrame(above)

\* Serial.printf("V: ... | Load: %s\n", ...): log output only.
PrintStatus ==
    /\ pc = "print"
    /\ pc' = "delay"
    /\ UNCHANGED <<wifiStatus, relayPin, record, locals, sent, history, probe>>

\* delay(5000); loop() returns and is called again.
Delay ==
    /\ pc = "delay"
    /\ pc' = "handleClient"
    /\ UNCHANGED <<wifiStatus, relayPin, record, locals, sent, history, probe>>

Next ==
    \/ SetupPins
    \/ WifiPoll
    \/ HandleClient
    \/ ReadVoltage
    \/ ReadCurrentSample
    \/ ReadCurrentReturn
    \/ ComputePower
    \/ ControlLoad
    \/ PrintStatus
    \/ Delay

Spec == Init /\ [][Next]_vars

\* ------------------------------------------------------------------------
\* readVoltage() as a function of the raw sample: every pair of samples at
\* most MaxGap apart is converted.
\* ------------------------------------------------------------------------

InitVoltage ==
    /\ ProgramInit
    /\ sampleLo \in 0..ADC_RESOLUTION
    /\ sampleHi \in {sampleLo + d : d \in 1..MaxGap} \cap (0..ADC_RESOLUTION)
    /\ voltLo = FZero
    /\ voltHi = FZero
    /\ converted = FALSE

ConvertSamples ==
    /\ ~converted
    /\ voltLo' = VoltageOf(sampleLo)
    /\ voltHi' = VoltageOf(sampleHi)
    /\ converted' = TRUE
    /\ UNCHANGED <<pc, wifiStatus, relayPin, record, locals, sent, history,
                   sampleLo, sampleHi>>

NextVoltage == ConvertSamples

SpecVoltage == InitVoltage /\ [][NextVoltage]_vars

\* ------------------------------------------------------------------------
\* properties
\* ------------------------------------------------------------------------

Above == FGeq(currentPower, MIN_POWER_TO_CONNECT_W)

\* C1: after every controlLoad() in loop() the relay pin is HIGH if and only
\* if the power computed in that iteration is >= MIN_POWER_TO_CONNECT_W,
\* whatever the earlier readings and the earlier relay state were.
C1_RelayFollowsPower ==
    pc = "print" =>
        /\ relayPin = "HIGH" <=> Above
        /\ vTick = tick /\ cTick = tick
        /\ currentPower = FMul(currentVoltage, currentCurrent)
        /\ Len(relayLog) = tick
        /\ relayLog[tick] = relayPin

\* Four iterations toggled the relay OFF, ON, OFF, ON.
C1_Witness ==
    pc = "print" /\ relayLog = <<"LOW", "HIGH", "LOW", "HIGH">>

C3_PowerIsProduct ==
    pc \in {"handleClient", "controlLoad", "print"} =>
        /\ currentPower = FMul(currentVoltage, currentCurrent)
        /\ vTick = cTick

\* The second iteration reaches the decision with a non-zero power that
\* differs from the first iteration's.
C3_Witness ==
    /\ pc = "controlLoad"
    /\ tick = 2
    /\ vTick = 2
    /\ currentPower # FZero
    /\ relayLog = <<"HIGH">>
    /\ ~Above

\* C4 as stated: pin LOW, flag false and voltage, current and power 0 from
\* the pin setup until the first controlLoad() with power >= threshold.
C4_AllZeroUntilConnect ==
    (pc # "setup" /\ ~reachedThreshold) =>
        /\ relayPin = "LOW"
        /\ ~loadConnected
        /\ currentVoltage = FZero
        /\ currentCurrent = FZero
        /\ currentPower = FZero

\* C4 amended: after the pin setup the pin is LOW and loadConnected false
\* until the first controlLoad() with power >= threshold; voltage, current
\* and power are 0 until the first iteration of loop() assigns them.
C4_StartsDisconnected ==
    pc # "setup" =>
        /\ ~reachedThreshold => (relayPin = "LOW" /\ ~loadConnected)
        /\ vTick = 0 => currentVoltage = FZero
        /\ cTick = 0 => (currentCurrent = FZero /\ currentPower = FZero)
        /\ (tick = 1 /\ pc = "computePower") => currentPower = FZero

\* Two iterations measured a non-zero power below the threshold and the
\* load is still disconnected.
C4_Witness ==
    /\ pc = "print"
    /\ tick = 2
    /\ ~reachedThreshold
    /\ currentPower # FZero
    /\ relayPin = "LOW"
    /\ ~loadConnected

\* C5: when the 20 samples average exactly to ZERO_CURRENT_OFFSET,
\* readCurrent() returns exactly 0.
C5_ZeroAtOffset ==
    (pc = "computePower" /\ totalAdc = NumSamples * ZERO_CURRENT_OFFSET) =>
        currentCurrent = FZero

\* C6: rendering the page changes neither the record nor the relay pin nor
\* acquires anything, the document embeds the cached values and the
\* threshold, and rendering again in the state it leaves gives the same
\* document.
C6_RenderIsPure ==
    [][pc = "handleClient" =>
          /\ UNCHANGED <<record, relayPin, locals, vTick, cTick>>
          /\ sent' # <<>> =>
                /\ sent'[1] = 200
                /\ sent'[3] = GetPage'
                /\ sent'[3].voltage = Fmt(currentVoltage, 100)
                /\ sent'[3].current = Fmt(currentCurrent, 100)
                /\ sent'[3].power = Fmt(currentPower, 100)
                /\ sent'[3].status_class = (IF loadConnected THEN "on" ELSE "off")
                /\ sent'[3].status_text = (IF loadConnected
                                             THEN "CONNECTED"
                                             ELSE "DISCONNECTED (Low Power)")
                /\ sent'[3].threshold = Fmt(MIN_POWER_TO_CONNECT_W, 10)]_vars

\* A page was rendered from a connected record whose current and power
\* print differently.
C6_Witness ==
    /\ pc = "readVoltage"
    /\ sent # <<>>
    /\ sent[3].status_text = "CONNECTED"
    /\ sent[3].power # sent[3].current
    /\ sent[3].threshold = 100

\* C7: readVoltage() is strictly increasing in the raw sample over
\* 0..ADC_RESOLUTION and is 0 at sample 0.
C7_VoltageMonotonic ==
    converted =>
        /\ ~FGeq(voltLo, voltHi)
        /\ sampleLo = 0 => voltLo = FZero

\* The top of the range was converted against its neighbour.
C7_Witness ==
    /\ converted
    /\ sampleHi = ADC_RESOLUTION
    /\ sampleLo = ADC_RESOLUTION - 1

\* C8: while WiFi.status() has not reported WL_CONNECTED, setup() has not
\* returned: nothing was acquired, decided or served, and the relay pin,
\* once configured, is LOW.
C8_BlocksUntilConnected ==
    wifiStatus # "WL_CONNECTED" =>
        /\ pc \in {"setup", "wifi"}
        /\ tick = 0 /\ vTick = 0 /\ cTick = 0
        /\ relayLog = <<>>
        /\ ~reachedThreshold
        /\ sent = <<>>
        /\ pc = "wifi" => relayPin = "LOW"

\* The association was polled and had failed.
C8_Witness ==
    pc = "wifi" /\ wifiStatus = "WL_CONNECT_FAILED"

\* C9: controlLoad() writes the pin and the flag only on a transition,
\* never changes voltage, current or power, and the relay pin changes at
\* most once per iteration of loop(), inside controlLoad().
C9_WritesOnlyOnTransition ==
    [][/\ pc = "controlLoad" =>
             /\ ((Above /\ relayPin = "HIGH") \/ (~Above /\ relayPin = "LOW")) =>
                    /\ pinWrites' = pinWrites
                    /\ flagWrites' = flagWrites
                    /\ UNCHANGED <<relayPin, loadConnected>>
             /\ UNCHANGED <<currentVoltage, currentCurrent, currentPower>>
             /\ pinWrites' <= 1
             /\ flagWrites' <= 1
       /\ relayPin' # relayPin => pc \in {"setup", "controlLoad"}
       /\ loadConnected' # loadConnected => pc = "controlLoad"]_vars

\* controlLoad() found the relay already HIGH with enough power and wrote
\* nothing.
C9_Witness ==
    /\ pc = "print"
    /\ pinWrites = 0
    /\ flagWrites = 0
    /\ relayPin = "HIGH"
    /\ Len(relayLog) >= 2

\* C10 as stated: on every rendered page the load status is CONNECTED if and
\* only if the displayed power is >= the displayed threshold.
C10_StatusMatchesDisplayedPower ==
    sent # <<>> =>
        (sent[3].status_text = "CONNECTED"
            <=> sent[3].power >= 10 * sent[3].threshold)

\* C10 amended: pages are sent only by handleClient() at the start of an
\* iteration; each shows the whole record the previous iteration left (zeros
\* and DISCONNECTED in the first), and its status is CONNECTED if and only if
\* the cached, unrounded currentPower is >= the threshold.
C10_PageIsPreviousSnapshot ==
    [][/\ sent' # sent => pc = "handleClient"
       /\ (pc = "handleClient" /\ sent' # <<>>) =>
             /\ sent'[3] = GetPage
             /\ vTick = tick /\ cTick = tick
             /\ currentPower = FMul(currentVoltage, currentCurrent)
             /\ sent'[3].status_text = "CONNECTED" <=> Above
             /\ tick = 0 =>
                   /\ sent'[3].voltage = 0
                   /\ sent'[3].current = 0
                   /\ sent'[3].power = 0
                   /\ sent'[3].status_text = "DISCONNECTED (Low Power)"]_vars

\* A page shows power 10.00 and DISCONNECTED: the cached power is just
\* below the threshold.
C10_Witness ==
    /\ pc = "readVoltage"
    /\ sent # <<>>
    /\ sent[3].power = 1000
    /\ sent[3].status_text = "DISCONNECTED (Low Power)"
    /\ ~Above

====
